---- MODULE Spec2Model ----
(***************************************************************************)
(* A model of assets/js/app.js of the PPS article system: the expiring     *)
(* localStorage cache, the loader (cache, then network, then validation),  *)
(* the list view's filter and its debounced search, and the view           *)
(* controllers that mount the result.                                      *)
(*                                                                         *)
(* Lines 1-130 of the file hold an older, simpler variant.  Function       *)
(* declarations are hoisted and the later declaration of loadArticles      *)
(* wins, so the variant's calls at lines 129-130 run the enhanced loader   *)
(* while CONFIG (a const of line 151) is still uninitialised: both calls   *)
(* fail inside the loader's try blocks, touch neither the storage nor the  *)
(* network, and leave no state behind.  The model starts after them.       *)
(***************************************************************************)
EXTENDS Integers, Sequences, FiniteSets, TLC

VARIABLES
  storage,           \* localStorage's content under CONFIG.cacheKey
  storageAvailable,  \* FALSE: every access to localStorage throws
  now,               \* Date.now(), in milliseconds
  ticks,             \* how many times the clock was advanced
  prevOp, cacheOp,   \* the last two operations on the cache store (history)
  articles,          \* initArticleList's articles: the loaded collection
  activeTopicFilter, \* initArticleList's activeTopicFilter
  searchQuery,       \* initArticleList's searchQuery
  cards,             \* what the #cards container shows
  detailMount,       \* what the #detailMount container shows
  page,              \* the document and its URL: which containers, which query
  started,           \* whether init has run in this page
  redirect,          \* whether init asked for a navigation (location.href)
  call,              \* each controller's call of loadArticles
  runs,              \* how many pages have been opened
  lastLoad,          \* the call of loadArticles that settled last (history)
  inputValue,        \* the value of the search input #q
  activeChips,       \* the topic chips that carry the class is-active
  timers,            \* the timeouts setTimeout has scheduled and not yet run
  timeout,           \* debounce's timeout: the id setTimeout returned last
  inputs,            \* how many input events the search input has fired
  lastInputAt,       \* when the last input event was fired (history)
  lastEvent,         \* the last event the list view handled (history)
  lastTrigger,       \* the last click on the search button or Enter (history)
  arg,               \* the argument of the utility function under study
  result             \* what the utility function returned for it

cacheVars == <<storage, storageAvailable, now, ticks, prevOp, cacheOp>>

listVars == <<articles, activeTopicFilter, searchQuery, cards>>

loaderVars == <<detailMount, page, started, redirect, call, runs, lastLoad>>

uiVars == <<inputValue, activeChips, timers, timeout, inputs, lastInputAt, lastEvent,
            lastTrigger>>

pureVars == <<arg, result>>

vars == <<storage, storageAvailable, now, ticks, prevOp, cacheOp,
          articles, activeTopicFilter, searchQuery, cards,
          detailMount, page, started, redirect, call, runs, lastLoad,
          inputValue, activeChips, timers, timeout, inputs, lastInputAt,
          lastEvent, lastTrigger, arg, result>>

----------------------------------------------------------------------------
(* CONFIG *)

cacheDuration == 5 * 60 * 1000

searchDebounce == 300

wordsPerMinute == 200

----------------------------------------------------------------------------
(* Bounds of the model *)

\* how many times the clock is advanced in one behaviour
MaxTicks == 2

\* how many pages are opened in one behaviour
MaxRuns == 2

\* Date.now() when the page starts: any instant later than cacheDuration
StartTime == 1000000

\* the longest collection and the longest search text the filter is tried on
MaxArticles == 2

MaxQueryLen == 2

\* how many input events the search input fires
MaxInputs == 3

\* how long the raw text of an article's title is
MaxFieldLen == 2

\* how many words the content of an article has
MaxWords == 601

\* how deep the elements of a markup tree nest below its top-level nodes
MaxDepth == 1

\* how many children a node of a markup tree has
MaxKids == 2

\* how many times the clock is advanced while the list is in use
MaxListTicks == 3

----------------------------------------------------------------------------
(* Articles.  A text is a sequence of characters; a missing title or       *)
(* excerpt is the empty text, which is what (x || '') makes of it.         *)

Chars == {"a", "b", "A", "B", " "}

A1 == [id |-> "a1", topic |-> "Berita", title |-> <<"A", "b">>, excerpt |-> <<>>]

A2 == [id |-> "a2", topic |-> "Edukasi", title |-> <<"b">>, excerpt |-> <<"a", " ", "B">>]

\* the article collections the data file or the cache may hold
Collections == {<<>>, <<A1, A2>>, <<A2>>}

----------------------------------------------------------------------------
(* JavaScript values, as far as the cache and the loader tell them apart.  *)
(* Each type has its own field, so that values of different types compare  *)
(* as unequal.                                                             *)

Undefined == [t |-> "undefined"]

Null == [t |-> "null"]

NaN == [t |-> "NaN"]

\* some non-empty string that is not numeric
Str == [t |-> "string"]

Num(n) == [t |-> "number", num |-> n]

Arr(c) == [t |-> "array", arr |-> c]

\* an object with the two fields the cache envelope has; a field that is
\* missing reads as Undefined
Obj(d, ts) == [t |-> "object", data |-> d, timestamp |-> ts]

\* the truthiness of a value: !v is the negation
Truthy(v) ==
  CASE v.t \in {"undefined", "null", "NaN"} -> FALSE
    [] v.t = "number" -> v.num # 0
    [] OTHER -> TRUE

\* the value's conversion to a number, as the subtraction now - timestamp
\* makes it
ToNumber(v) ==
  CASE v.t = "number" -> v
    [] v.t = "null" -> Num(0)
    [] OTHER -> NaN

\* the property a destructuring pattern { data, timestamp } reads
Field(v, name) ==
  IF v.t = "object"
  THEN (IF name = "data" THEN v.data ELSE v.timestamp)
  ELSE Undefined

----------------------------------------------------------------------------
(* The storage key's content: no item, or a text.  A text is the empty     *)
(* text, a text that is not JSON, or the JSON text of a value.             *)

NoItem == [k |-> "none"]

EmptyText == [k |-> "empty"]

Garbage == [k |-> "garbage"]

\* JSON.stringify of a value read from JSON: the text JSON.parse reads back
JSONstringify(v) == [k |-> "json", json |-> v]

\* JSON.parse: whether it throws (a SyntaxError), and the value if not
JSONparseThrows(text) == text.k # "json"

JSONparse(text) == text.json

----------------------------------------------------------------------------
(* Texts, and the list view's filter *)

Lower(c) == CASE c = "A" -> "a" [] c = "B" -> "b" [] OTHER -> c

\* String.prototype.toLowerCase
toLowerCase(s) == [i \in 1..Len(s) |-> Lower(s[i])]

\* String.prototype.trim: the text without its leading and trailing blanks
trim(s) ==
  LET inked == {i \in 1..Len(s) : s[i] # " "}
  IN  IF inked = {} THEN <<>>
      ELSE LET first == CHOOSE i \in inked : \A j \in inked : i <= j
               last == CHOOSE i \in inked : \A j \in inked : j <= i
           IN  SubSeq(s, first, last)

\* String.prototype.includes
includes(s, q) ==
  \E i \in 0..(Len(s) - Len(q)) : SubSeq(s, i + 1, i + Len(q)) = q

\* the filter with the older variant's search, which looks at the title only
filtered_titleOnly(list, topic, search) ==
  LET query == trim(toLowerCase(search))
      keep(article) ==
        /\ topic = "all" \/ article.topic = topic
        /\ query = <<>> \/ includes(toLowerCase(article.title), query)
  IN  SelectSeq(list, keep)

\* applyFilters' filtered: the articles of list that match the topic and
\* the search
filtered(list, topic, search) ==
  LET query == trim(toLowerCase(search))
      keep(article) ==
        LET matchesTopic == topic = "all" \/ article.topic = topic
            matchesSearch ==
              \/ query = <<>>
              \/ includes(toLowerCase(article.title), query)
              \/ includes(toLowerCase(article.excerpt), query)
        IN  matchesTopic /\ matchesSearch
  IN  SelectSeq(list, keep)

\* applyFilters without lines 644-645: an empty result is rendered as cards
applyFilters_noEmptyState(list, topic, search) ==
  [state |-> "cards", shown |-> filtered(list, topic, search)]

\* what applyFilters puts in the container: the empty state, or the cards
\* of the filtered articles, in their order
applyFilters(list, topic, search) ==
  LET f == filtered(list, topic, search)
  IN  IF Len(f) = 0
      THEN [state |-> "empty"]
      ELSE [state |-> "cards", shown |-> f]

\* showError
showError(message) == [state |-> "error", message |-> message]

\* the list view of a page that has no list, or has not loaded it yet
ListIdle ==
  /\ articles = Arr(<<>>)
  /\ activeTopicFilter = "all"
  /\ searchQuery = <<>>
  /\ cards = [state |-> "blank"]

\* no utility function under study
PureIdle ==
  /\ arg = [t |-> "undefined"]
  /\ result = [t |-> "undefined"]

\* debounce's timeout before the first call: undefined, which is the id of no
\* timeout (setTimeout returns positive ids)
NoTimeout == [id |-> 0]

\* no event handled yet
NoEvent == [ev |-> "none"]

\* the search input, the chips and the timers of a page nobody has touched
UiIdle ==
  /\ inputValue = <<>>
  /\ activeChips = {"all"}
  /\ timers = {}
  /\ timeout = NoTimeout
  /\ inputs = 0
  /\ lastInputAt = 0
  /\ lastEvent = NoEvent
  /\ lastTrigger = NoEvent

\* the callers of loadArticles: initArticleList and initArticleDetail
Callers == {"list", "detail"}

\* a call of loadArticles that has not been made
NoCall == [pc |-> "idle"]

\* a page in which init has not run
LoaderIdle ==
  /\ detailMount = [state |-> "blank"]
  /\ page = [cards |-> FALSE, detail |-> FALSE, clearcache |-> FALSE, id |-> "none"]
  /\ started = FALSE
  /\ redirect = FALSE
  /\ call = [p \in Callers |-> NoCall]
  /\ runs = 0
  /\ lastLoad = NoCall

----------------------------------------------------------------------------
(* The cache store *)

\* the comparison with <= for <: an entry still valid at the end of its lifetime
CacheStillValid_inclusive(t, timestamp) ==
  LET n == ToNumber(timestamp)
  IN  n.t = "number" /\ t - n.num <= cacheDuration

\* now - timestamp < CONFIG.cacheDuration; a comparison with NaN is false
CacheStillValid(t, timestamp) ==
  LET n == ToNumber(timestamp)
  IN  n.t = "number" /\ t - n.num < cacheDuration

\* getCachedData without its removeItem: an expired entry is left in place
getCachedData_keepsExpired(st, avail, t) ==
  IF ~avail \/ st.k \in {"none", "empty"} \/ JSONparseThrows(st)
  THEN [ret |-> Null, store |-> st]
  ELSE LET v == JSONparse(st)
       IN  IF v.t \in {"null", "undefined"}
           THEN [ret |-> Null, store |-> st]
           ELSE IF CacheStillValid(t, Field(v, "timestamp"))
           THEN [ret |-> Field(v, "data"), store |-> st]
           ELSE [ret |-> Null, store |-> st]

\* getCachedData, reading the content st at instant t: the value it returns
\* and the content it leaves.  Every throw inside it is caught and makes it
\* return null, with the content left as it was.
getCachedData(st, avail, t) ==
  IF ~avail
  THEN [ret |-> Null, store |-> st]                \* localStorage throws
  ELSE IF st.k \in {"none", "empty"}
  THEN [ret |-> Null, store |-> st]                \* if (!cached) return null
  ELSE IF JSONparseThrows(st)
  THEN [ret |-> Null, store |-> st]                \* SyntaxError
  ELSE LET v == JSONparse(st)
       IN  IF v.t \in {"null", "undefined"}
           THEN [ret |-> Null, store |-> st]       \* destructuring null: TypeError
           ELSE IF CacheStillValid(t, Field(v, "timestamp"))
           THEN [ret |-> Field(v, "data"), store |-> st]
           ELSE [ret |-> Null, store |-> NoItem]   \* removeItem

\* setCachedData without its try: a throw of setItem reaches the caller
setCachedData_rethrows(data, st, avail, accepted, t) ==
  IF avail /\ accepted
  THEN [store |-> JSONstringify(Obj(data, Num(t))), raised |-> FALSE]
  ELSE [store |-> st, raised |-> TRUE]

\* setCachedData of data at instant t: the content it leaves, and whether it
\* raises.  accepted is FALSE when setItem throws (the quota is exceeded);
\* the throw is caught and logged.
setCachedData(data, st, avail, accepted, t) ==
  IF avail /\ accepted
  THEN [store |-> JSONstringify(Obj(data, Num(t))), raised |-> FALSE]
  ELSE [store |-> st, raised |-> FALSE]

\* clearCache without its removeItem
clearCache_noop(st, avail) == st

\* clearCache: the content it leaves
clearCache(st, avail) == IF avail THEN NoItem ELSE st

\* what the key may hold when a page starts: nothing, the entry an earlier
\* page wrote (fresh, or old), or a text that is no entry
InitialStorage ==
  { NoItem, EmptyText, Garbage,
    JSONstringify(Null), JSONstringify(Num(5)), JSONstringify(Str),
    JSONstringify(Arr(<<A2>>)),
    JSONstringify(Obj(Arr(<<A1, A2>>), Num(StartTime))),
    JSONstringify(Obj(Arr(<<A2>>), Num(StartTime - cacheDuration))),
    JSONstringify(Obj(Str, Num(StartTime))),
    JSONstringify(Obj(Undefined, Num(StartTime))),
    JSONstringify(Obj(Arr(<<A2>>), Undefined)),
    JSONstringify(Obj(Arr(<<A2>>), Null)),
    JSONstringify(Obj(Arr(<<A2>>), Str)) }

\* the cache store of a page that has not touched it
CacheIdle ==
  /\ storage = NoItem
  /\ storageAvailable = TRUE
  /\ now = StartTime
  /\ ticks = 0
  /\ prevOp = [op |-> "none"]
  /\ cacheOp = [op |-> "none"]

\* the clock's n-th step: one millisecond short of the cache's lifetime, then
\* one millisecond, in turns, so that entries are read one millisecond
\* before the end of their lifetime, at its end, and later
ClockStep(n) == IF n % 2 = 1 THEN cacheDuration - 1 ELSE 1

----------------------------------------------------------------------------
(* The cache store on its own: read, write and clear in any order, as      *)
(* callers (the loader, init, window.PPS) make them.                       *)

NoOp == [op |-> "none"]

InitCache ==
  /\ PureIdle
  /\ UiIdle
  /\ storageAvailable \in BOOLEAN
  /\ storage \in (IF storageAvailable THEN InitialStorage ELSE {NoItem})
  /\ now = StartTime
  /\ ticks = 0
  /\ prevOp = NoOp
  /\ cacheOp = NoOp
  /\ ListIdle
  /\ LoaderIdle

CacheRead ==
  LET r == getCachedData(storage, storageAvailable, now)
  IN  /\ storage' = r.store
      /\ prevOp' = cacheOp
      /\ cacheOp' = [op |-> "read", at |-> now, pre |-> storage, ret |-> r.ret]
      /\ UNCHANGED <<pureVars, uiVars, storageAvailable, now, ticks, listVars, loaderVars>>

CacheWrite ==
  \E c \in Collections, accepted \in BOOLEAN :
    /\ storage' = setCachedData(Arr(c), storage, storageAvailable, accepted, now).store
    /\ prevOp' = cacheOp
    /\ cacheOp' = [op |-> "write", at |-> now, data |-> Arr(c),
                   stored |-> storageAvailable /\ accepted]
    /\ UNCHANGED <<pureVars, uiVars, storageAvailable, now, ticks, listVars, loaderVars>>

CacheClear ==
  /\ storage' = clearCache(storage, storageAvailable)
  /\ prevOp' = cacheOp
  /\ cacheOp' = [op |-> "clear", at |-> now]
  /\ UNCHANGED <<pureVars, uiVars, storageAvailable, now, ticks, listVars, loaderVars>>

Tick ==
  /\ ticks < MaxTicks
  /\ now' = now + ClockStep(ticks + 1)
  /\ ticks' = ticks + 1
  /\ UNCHANGED <<pureVars, uiVars, storage, storageAvailable, prevOp, cacheOp, listVars, loaderVars>>

NextCache == CacheRead \/ CacheWrite \/ CacheClear \/ Tick

SpecCache == InitCache /\ [][NextCache]_vars

----------------------------------------------------------------------------
(* The loader *)

NoValue == [t |-> "none"]

NoResponse == [net |-> "none"]

\* fetch rejects: the network failed
NetworkError == [net |-> "error"]

Response(status, body) == [net |-> "response", status |-> status, body |-> body]

\* what the fetch of CONFIG.dataPath may settle with
Responses ==
  { NetworkError, Response(404, Garbage), Response(200, Garbage),
    Response(200, JSONstringify(Obj(Arr(<<A2>>), Num(0)))) }
  \cup {Response(200, JSONstringify(Arr(c))) : c \in Collections}

\* response.ok
ok(r) == r.status >= 200 /\ r.status <= 299

\* the messages of the errors thrown inside loadArticles' try
FetchFailed == [text |-> "Failed to fetch"]

HttpError(status) == [text |-> "HTTP error! status: ", status |-> status]

SyntaxError == [text |-> "Unexpected token"]

InvalidFormat == [text |-> "Data format invalid: expected array"]

StorageError == [text |-> "QuotaExceededError"]

\* loadArticles' catch: the error it throws for an error with this message
LoadFailure(cause) ==
  [t |-> "error", message |-> [prefix |-> "Gagal memuat data: ", cause |-> cause]]

\* loadArticles up to its first await, with no look at what the cache
\* returned
loadArticlesStart_noCache(st, avail, t, prior) ==
  LET r == getCachedData(st, avail, t)
  IN  [ call |-> [pc |-> "fetching", pre |-> st, readAt |-> t, prior |-> prior,
                  cached |-> r.ret, fetches |-> 1, log |-> <<"read", "fetch">>,
                  response |-> NoResponse, ret |-> NoValue, stored |-> FALSE,
                  before |-> r.store, post |-> r.store, at |-> t],
        store |-> r.store ]

\* loadArticles up to its first await, called on the content st at instant
\* t, prior being the call that settled last: the call, and the content it
\* leaves.  A call's pre and readAt are the content and the instant of its
\* cache read; before, post and at are the content before and after its
\* last step, and that step's instant.
loadArticlesStart(st, avail, t, prior) ==
  LET r == getCachedData(st, avail, t)
  IN  IF Truthy(r.ret)
      THEN [ call |-> [pc |-> "returned", pre |-> st, readAt |-> t,
                       prior |-> prior, cached |-> r.ret, fetches |-> 0,
                       log |-> <<"read">>, response |-> NoResponse,
                       ret |-> r.ret, stored |-> FALSE,
                       before |-> st, post |-> r.store, at |-> t],
             store |-> r.store ]
      ELSE [ call |-> [pc |-> "fetching", pre |-> st, readAt |-> t,
                       prior |-> prior, cached |-> r.ret, fetches |-> 1,
                       log |-> <<"read", "fetch">>, response |-> NoResponse,
                       ret |-> NoValue, stored |-> FALSE,
                       before |-> st, post |-> r.store, at |-> t],
             store |-> r.store ]

\* loadArticles when its fetch settles with r
loadArticlesOnResponse(c, r) ==
  IF r = NetworkError
  THEN [c EXCEPT !.pc = "failed", !.response = r, !.ret = LoadFailure(FetchFailed)]
  ELSE IF ~ok(r)
  THEN [c EXCEPT !.pc = "failed", !.response = r,
                 !.ret = LoadFailure(HttpError(r.status))]
  ELSE [c EXCEPT !.pc = "parsing", !.response = r]

\* the call c with its last step noted: the content before and after it,
\* and its instant
Stepped(c, before, post, t) ==
  [c EXCEPT !.before = before, !.post = post, !.at = t]

\* loadArticles when response.json() settles, with no check of the data
loadArticlesOnBody_unchecked(c, st, avail, accepted, t) ==
  IF JSONparseThrows(c.response.body)
  THEN [call |-> [c EXCEPT !.pc = "failed", !.ret = LoadFailure(SyntaxError)],
        store |-> st]
  ELSE LET data == JSONparse(c.response.body)
           w == setCachedData(data, st, avail, accepted, t)
       IN  [call |-> [c EXCEPT !.pc = "returned", !.ret = data,
                               !.log = Append(c.log, "write"),
                               !.stored = avail /\ accepted],
            store |-> w.store]

\* loadArticles when response.json() settles, with no write to the cache
loadArticlesOnBody_noWrite(c, st, avail, accepted, t) ==
  IF JSONparseThrows(c.response.body)
  THEN [call |-> [c EXCEPT !.pc = "failed", !.ret = LoadFailure(SyntaxError)],
        store |-> st]
  ELSE LET data == JSONparse(c.response.body)
       IN  IF data.t # "array"
           THEN [call |-> [c EXCEPT !.pc = "failed",
                                    !.ret = LoadFailure(InvalidFormat)],
                 store |-> st]
           ELSE [call |-> [c EXCEPT !.pc = "returned", !.ret = data,
                                    !.stored = avail /\ accepted],
                 store |-> st]

\* loadArticles when response.json() settles, writing only when the cache
\* holds nothing: the first call to resolve keeps the entry
loadArticlesOnBody_keepFirst(c, st, avail, accepted, t) ==
  IF JSONparseThrows(c.response.body)
  THEN [call |-> [c EXCEPT !.pc = "failed", !.ret = LoadFailure(SyntaxError)],
        store |-> st]
  ELSE LET data == JSONparse(c.response.body)
       IN  IF data.t # "array"
           THEN [call |-> [c EXCEPT !.pc = "failed",
                                    !.ret = LoadFailure(InvalidFormat)],
                 store |-> st]
           ELSE LET w == setCachedData(data, st, avail, accepted, t)
                IN  [call |-> [c EXCEPT !.pc = "returned", !.ret = data,
                                        !.log = Append(c.log, "write"),
                                        !.stored = avail /\ accepted],
                     store |-> IF st = NoItem THEN w.store ELSE st]

\* loadArticles when response.json() settles, at instant t on the content
\* st: the call, and the content it leaves
loadArticlesOnBody(c, st, avail, accepted, t) ==
  IF JSONparseThrows(c.response.body)
  THEN [call |-> [c EXCEPT !.pc = "failed", !.ret = LoadFailure(SyntaxError)],
        store |-> st]
  ELSE LET data == JSONparse(c.response.body)
       IN  IF data.t # "array"
           THEN [call |-> [c EXCEPT !.pc = "failed",
                                    !.ret = LoadFailure(InvalidFormat)],
                 store |-> st]
           ELSE LET w == setCachedData(data, st, avail, accepted, t)
                IN  IF w.raised
                    THEN [call |-> [c EXCEPT !.pc = "failed",
                                             !.log = Append(c.log, "write"),
                                             !.ret = LoadFailure(StorageError)],
                          store |-> w.store]
                    ELSE [call |-> [c EXCEPT !.pc = "returned", !.ret = data,
                                             !.log = Append(c.log, "write"),
                                             !.stored = avail /\ accepted],
                          store |-> w.store]

\* whether the call has settled: loadArticles returned or threw
Settled(c) == c.pc \in {"returned", "failed"}

\* what is kept of a settled call for the calls that follow it; of a call
\* that failed, only that it failed and whether it fetched
Summary(c) ==
  IF c.pc = "failed"
  THEN [pc |-> c.pc, pre |-> NoItem, fetches |-> c.fetches, ret |-> NoValue,
        stored |-> FALSE, post |-> NoItem, at |-> 0]
  ELSE [pc |-> c.pc, pre |-> c.pre, fetches |-> c.fetches, ret |-> c.ret,
        stored |-> c.stored, post |-> c.post, at |-> c.at]

----------------------------------------------------------------------------
(* The view controllers *)

\* initArticleList without its catch: a failed load leaves the loading state
listMount_uncaught(c) ==
  IF c.pc = "failed" \/ c.ret.t # "array"
  THEN [state |-> "loading"]
  ELSE applyFilters(c.ret.arr, "all", <<>>)

\* initArticleList after its await: what the container shows
listMount(c) ==
  IF c.pc = "failed"
  THEN showError(c.ret.message)
  ELSE IF c.ret.t # "array"
  THEN showError([text |-> "articles.filter is not a function"])
  ELSE applyFilters(c.ret.arr, "all", <<>>)

\* articles.find(a => a.id === articleId), or undefined
find(list, id) ==
  LET hits == {i \in 1..Len(list) : list[i].id = id}
  IN  IF hits = {} THEN Undefined
      ELSE list[CHOOSE i \in hits : \A j \in hits : i <= j]

\* initArticleDetail without lines 717-720: an id that matches no article
\* is an error
detailRender_strict(c, id) ==
  IF c.pc = "failed"
  THEN showError(c.ret.message)
  ELSE IF c.ret.t # "array"
  THEN showError([text |-> "articles.find is not a function"])
  ELSE LET article == find(c.ret.arr, id)
       IN  IF article = Undefined
           THEN showError([text |-> "Tidak ada artikel tersedia"])
           ELSE [state |-> "detail", article |-> article]

\* initArticleDetail after its await: what the container shows
detailRender(c, id) ==
  IF c.pc = "failed"
  THEN showError(c.ret.message)
  ELSE IF c.ret.t # "array"
  THEN showError([text |-> "articles.find is not a function"])
  ELSE LET found == find(c.ret.arr, id)
           article == IF found = Undefined /\ Len(c.ret.arr) > 0
                      THEN c.ret.arr[1]
                      ELSE found
       IN  IF article = Undefined
           THEN showError([text |-> "Tidak ada artikel tersedia"])
           ELSE [state |-> "detail", article |-> article]

----------------------------------------------------------------------------
(* The page: init, the two controllers and their calls of loadArticles,    *)
(* the network's answers, the clock, and the navigation to another page.   *)
(* The storage outlives the page; everything else starts afresh.           *)

showLoading == [state |-> "loading"]

Page(c, d, cc, id) == [cards |-> c, detail |-> d, clearcache |-> cc, id |-> id]

\* the pages: the list, the detail of an article that exists and of one
\* that does not, a page with both containers (its id parameter missing),
\* and the page with both containers opened with the clearcache marker
Pages ==
  { Page(TRUE, FALSE, FALSE, "none"), Page(FALSE, TRUE, FALSE, "a2"),
    Page(FALSE, TRUE, FALSE, "zz"), Page(TRUE, TRUE, FALSE, "none"),
    Page(TRUE, TRUE, TRUE, "none") }

\* what the key may hold when the first page starts
PageStorage ==
  { NoItem, Garbage,
    JSONstringify(Obj(Arr(<<A1, A2>>), Num(StartTime))),
    JSONstringify(Obj(Arr(<<A2>>), Num(StartTime - cacheDuration))),
    JSONstringify(Obj(Str, Num(StartTime))) }

Init ==
  /\ PureIdle
  /\ UiIdle
  /\ storageAvailable \in BOOLEAN
  /\ storage \in (IF storageAvailable THEN PageStorage ELSE {NoItem})
  /\ now = StartTime
  /\ ticks = 0
  /\ prevOp = NoOp
  /\ cacheOp = NoOp
  /\ ListIdle
  /\ detailMount = [state |-> "blank"]
  /\ page \in Pages
  /\ started = FALSE
  /\ redirect = FALSE
  /\ call = [p \in Callers |-> NoCall]
  /\ runs = 1
  /\ lastLoad = NoCall

\* init, with the synchronous part of the controllers it starts and, for a
\* call the cache answered, the controller's continuation
init ==
  /\ ~started
  /\ LET s1 == IF page.clearcache
               THEN clearCache(storage, storageAvailable)
               ELSE storage
         l == IF page.cards
              THEN loadArticlesStart(s1, storageAvailable, now, lastLoad)
              ELSE [call |-> NoCall, store |-> s1]
         last1 == IF Settled(l.call) THEN Summary(l.call) ELSE lastLoad
         d == IF page.detail
              THEN loadArticlesStart(l.store, storageAvailable, now, last1)
              ELSE [call |-> NoCall, store |-> l.store]
         last2 == IF Settled(d.call) THEN Summary(d.call) ELSE last1
     IN  /\ storage' = d.store
         /\ call' = [p \in Callers |-> IF p = "list" THEN l.call ELSE d.call]
         /\ lastLoad' = last2
         /\ cards' = IF ~page.cards THEN cards
                     ELSE IF Settled(l.call) THEN listMount(l.call)
                     ELSE showLoading
         /\ articles' = IF page.cards /\ l.call.pc = "returned"
                        THEN l.call.ret
                        ELSE articles
         /\ detailMount' = IF ~page.detail THEN detailMount
                           ELSE IF Settled(d.call) THEN detailRender(d.call, page.id)
                           ELSE showLoading
  /\ redirect' = page.clearcache
  /\ started' = TRUE
  /\ UNCHANGED <<pureVars, uiVars, storageAvailable, now, ticks, prevOp, cacheOp,
                 activeTopicFilter, searchQuery, page, runs>>

\* the controller p's continuation once its call c has settled
Mount(p, c) ==
  IF p = "list"
  THEN /\ cards' = listMount(c)
       /\ articles' = (IF c.pc = "returned" THEN c.ret ELSE articles)
       /\ UNCHANGED detailMount
  ELSE /\ detailMount' = detailRender(c, page.id)
       /\ UNCHANGED <<cards, articles>>

\* the fetch of caller p settles
FetchSettle(p) ==
  /\ call[p].pc = "fetching"
  /\ \E r \in Responses :
       LET c == Stepped(loadArticlesOnResponse(call[p], r), storage, storage, now)
       IN  /\ call' = [call EXCEPT ![p] = c]
           /\ IF Settled(c)
              THEN /\ lastLoad' = Summary(c)
                   /\ Mount(p, c)
              ELSE UNCHANGED <<lastLoad, cards, articles, detailMount>>
  /\ UNCHANGED <<pureVars, uiVars, cacheVars, activeTopicFilter, searchQuery,
                 page, started, redirect, runs>>

\* response.json() of caller p settles
JsonSettle(p) ==
  /\ call[p].pc = "parsing"
  /\ \E accepted \in BOOLEAN :
       LET o == loadArticlesOnBody(call[p], storage, storageAvailable, accepted, now)
           c == Stepped(o.call, storage, o.store, now)
       IN  /\ call' = [call EXCEPT ![p] = c]
           /\ storage' = o.store
           /\ lastLoad' = Summary(c)
           /\ Mount(p, c)
  /\ UNCHANGED <<pureVars, uiVars, storageAvailable, now, ticks, prevOp, cacheOp,
                 activeTopicFilter, searchQuery, page, started, redirect, runs>>

\* the document pg replaces the page: nothing of the page is kept
Open(pg) ==
  /\ runs < MaxRuns
  /\ runs' = runs + 1
  /\ page' = pg
  /\ started' = FALSE
  /\ redirect' = FALSE
  /\ call' = [p \in Callers |-> NoCall]
  /\ articles' = Arr(<<>>)
  /\ cards' = [state |-> "blank"]
  /\ detailMount' = [state |-> "blank"]
  /\ UNCHANGED <<pureVars, uiVars, cacheVars, activeTopicFilter, searchQuery, lastLoad>>

\* location.reload(): the error state's button, or the browser's
Reload ==
  /\ started /\ ~redirect
  /\ Open(page)

\* the navigation init asked for: the same path without its query string
Redirect ==
  /\ started /\ redirect
  /\ Open(Page(page.cards, page.detail, FALSE, "none"))

Next ==
  \/ init
  \/ \E p \in Callers : FetchSettle(p)
  \/ \E p \in Callers : JsonSettle(p)
  \/ Reload
  \/ Redirect
  \/ Tick

Spec == Init /\ [][Next]_vars

----------------------------------------------------------------------------
(* The filter on its own: applyFilters run once on a loaded collection,    *)
(* under some topic and some search text.                                  *)

\* CONFIG.topics
topics == {"all", "Konten", "Berita", "Edukasi"}

\* all texts of at most n characters
Texts(n) == UNION {[1..k -> Chars] : k \in 0..n}

A3 == [id |-> "a3", topic |-> "berita", title |-> <<>>, excerpt |-> <<"b">>]

A4 == [id |-> "a4", topic |-> "Berita", title |-> <<"a", " ", "b">>, excerpt |-> <<>>]

FilterCollections == UNION {[1..k -> {A1, A2, A3, A4}] : k \in 0..MaxArticles}

InitFilter ==
  /\ PureIdle
  /\ UiIdle
  /\ CacheIdle
  /\ LoaderIdle
  /\ articles \in {Arr(c) : c \in FilterCollections}
  /\ activeTopicFilter \in topics
  /\ searchQuery \in Texts(MaxQueryLen)
  /\ cards = [state |-> "blank"]

ApplyFilters ==
  /\ cards.state = "blank"
  /\ cards' = applyFilters(articles.arr, activeTopicFilter, searchQuery)
  /\ UNCHANGED <<pureVars, uiVars, articles, activeTopicFilter, searchQuery, cacheVars, loaderVars>>

NextFilter == ApplyFilters

SpecFilter == InitFilter /\ [][NextFilter]_vars

----------------------------------------------------------------------------
(* The list view in use: initArticleList's listeners on a loaded list.     *)
(* The user types, clicks the search button, presses keys and clicks       *)
(* chips; the timeouts debounce scheduled run when they are due or later.  *)

\* the values the user gives the search input
ListQueries == {<<>>, <<"b">>, <<"a", " ">>}

\* the keys of the keydown events
Keys == {"Enter", "a"}

\* setTimeout(later, wait) at time t: the timeout it schedules
setTimeout(id, wait, t) == [id |-> id, due |-> t + wait]

\* clearTimeout(id) on the scheduled timeouts
clearTimeout(pending, id) == {x \in pending : x.id # id.id}

\* debounce without line 175: a new call leaves the pending timeout alone
executedFunction_stacking(pending, last, id, wait, t) ==
  pending \cup {setTimeout(id, wait, t)}

\* debounce's executedFunction: the scheduled timeouts after a call at time t
\* whose setTimeout returns id
executedFunction(pending, last, id, wait, t) ==
  clearTimeout(pending, last) \cup {setTimeout(id, wait, t)}

\* debounce's later: the scheduled timeouts once the timeout fired has run
later(pending, last, fired) ==
  clearTimeout(pending \ {fired}, last)

\* the clock's n-th step while the list is in use: one millisecond short of
\* the debounce wait, then the millisecond that completes it
DebounceStep(n) == IF n % 2 = 1 THEN searchDebounce - 1 ELSE 1

\* the state init leaves on the list page when the cache answers the load;
\* the input holds what the markup or the browser's form restoration gave it
InitList ==
  \E c \in Collections :
    LET entry == JSONstringify(Obj(Arr(c), Num(StartTime)))
        l == loadArticlesStart(entry, TRUE, StartTime, NoCall)
    IN  /\ storageAvailable = TRUE
        /\ storage = l.store
        /\ now = StartTime
        /\ ticks = 0
        /\ prevOp = NoOp
        /\ cacheOp = NoOp
        /\ articles = l.call.ret
        /\ activeTopicFilter = "all"
        /\ searchQuery = <<>>
        /\ cards = listMount(l.call)
        /\ detailMount = [state |-> "blank"]
        /\ page = Page(TRUE, FALSE, FALSE, "none")
        /\ started = TRUE
        /\ redirect = FALSE
        /\ call = [p \in Callers |-> IF p = "list" THEN l.call ELSE NoCall]
        /\ runs = 1
        /\ lastLoad = Summary(l.call)
        /\ inputValue \in ListQueries
        /\ activeChips \in SUBSET topics
        /\ timers = {}
        /\ timeout = NoTimeout
        /\ inputs = 0
        /\ lastInputAt = 0
        /\ lastEvent = NoEvent
        /\ lastTrigger = NoEvent
        /\ PureIdle

\* the input event with no listener on it (line 678 not run): the value
\* changes and nothing is scheduled
Input_unheard(v) ==
  /\ inputs < MaxInputs
  /\ inputValue' = v
  /\ inputs' = inputs + 1
  /\ lastInputAt' = now
  /\ lastEvent' = [ev |-> "input", at |-> now]
  /\ UNCHANGED <<pureVars, cacheVars, listVars, loaderVars, activeChips, lastTrigger,
                 timers, timeout>>

\* the user edits the input, leaving the value v: the input event calls debouncedSearch
Input(v) ==
  /\ inputs < MaxInputs
  /\ inputValue' = v
  /\ inputs' = inputs + 1
  /\ timers' = executedFunction(timers, timeout, inputs + 1, searchDebounce, now)
  /\ timeout' = [id |-> inputs + 1]
  /\ lastInputAt' = now
  /\ lastEvent' = [ev |-> "input", at |-> now]
  /\ UNCHANGED <<pureVars, cacheVars, listVars, loaderVars, activeChips, lastTrigger>>

\* a timeout that is due runs: later, then debouncedSearch's function
TimerFire ==
  \E x \in timers :
    /\ now >= x.due
    /\ timers' = later(timers, timeout, x)
    /\ searchQuery' = inputValue
    /\ cards' = applyFilters(articles.arr, activeTopicFilter, inputValue)
    /\ lastEvent' = [ev |-> "timer", id |-> x.id, at |-> now,
                     since |-> now - lastInputAt,
                     latest |-> (timeout = [id |-> x.id]),
                     others |-> Cardinality(timers \ {x})]
    /\ UNCHANGED <<pureVars, cacheVars, loaderVars, articles, activeTopicFilter,
                   inputValue, activeChips, timeout, inputs, lastInputAt,
                   lastTrigger>>

\* a click listener without line 680: it renders the committed query again
SearchClick_committed ==
  /\ cards' = applyFilters(articles.arr, activeTopicFilter, searchQuery)
  /\ lastEvent' = [ev |-> "click"]
  /\ lastTrigger' = [ev |-> "trigger", inputs |-> inputs]
  /\ UNCHANGED <<pureVars, cacheVars, loaderVars, articles, activeTopicFilter, searchQuery,
                 inputValue, activeChips, timers, timeout, inputs, lastInputAt>>

\* a click on the search button
SearchClick ==
  /\ searchQuery' = inputValue
  /\ cards' = applyFilters(articles.arr, activeTopicFilter, inputValue)
  /\ lastEvent' = [ev |-> "click"]
  /\ lastTrigger' = [ev |-> "trigger", inputs |-> inputs]
  /\ UNCHANGED <<pureVars, cacheVars, loaderVars, articles, activeTopicFilter,
                 inputValue, activeChips, timers, timeout, inputs, lastInputAt>>

\* a key pressed in the search input
Keydown(key) ==
  /\ IF key = "Enter"
     THEN /\ searchQuery' = inputValue
          /\ cards' = applyFilters(articles.arr, activeTopicFilter, inputValue)
          /\ lastTrigger' = [ev |-> "trigger", inputs |-> inputs]
     ELSE UNCHANGED <<searchQuery, cards, lastTrigger>>
  /\ lastEvent' = [ev |-> "keydown", key |-> key]
  /\ UNCHANGED <<pureVars, cacheVars, loaderVars, articles, activeTopicFilter,
                 inputValue, activeChips, timers, timeout, inputs, lastInputAt>>

\* a chip listener without line 665: the other chips keep their class
ChipClick_additive(t) ==
  /\ activeChips' = activeChips \cup {t}
  /\ activeTopicFilter' = t
  /\ cards' = applyFilters(articles.arr, t, searchQuery)
  /\ lastEvent' = [ev |-> "chip", topic |-> t]
  /\ UNCHANGED <<pureVars, cacheVars, loaderVars, articles, searchQuery,
                 inputValue, timers, timeout, inputs, lastInputAt, lastTrigger>>

\* a click on the chip of topic t
ChipClick(t) ==
  /\ activeChips' = (activeChips \ topics) \cup {t}
  /\ activeTopicFilter' = t
  /\ cards' = applyFilters(articles.arr, t, searchQuery)
  /\ lastEvent' = [ev |-> "chip", topic |-> t]
  /\ UNCHANGED <<pureVars, cacheVars, loaderVars, articles, searchQuery,
                 inputValue, timers, timeout, inputs, lastInputAt, lastTrigger>>

\* time passes while the list is in use
ListTick ==
  /\ ticks < MaxListTicks
  /\ now' = now + DebounceStep(ticks + 1)
  /\ ticks' = ticks + 1
  /\ UNCHANGED <<pureVars, storage, storageAvailable, prevOp, cacheOp, listVars,
                 loaderVars, uiVars>>

NextList ==
  \/ \E v \in ListQueries : Input(v)
  \/ TimerFire
  \/ SearchClick
  \/ \E key \in Keys : Keydown(key)
  \/ \E t \in topics : ChipClick(t)
  \/ ListTick

SpecList == InitList /\ [][NextList]_vars

----------------------------------------------------------------------------
(* sanitizeHTML on its own.  The markup is taken as the tree the parser    *)
(* builds in temp (temp.innerHTML = html) and the result as the tree that  *)
(* temp.innerHTML serializes: a node has a tag, the names of its           *)
(* attributes (lower case, as the parser leaves them) and its children; a  *)
(* template's children are its contents.                                   *)

Text == [tag |-> "#text", attrs |-> {}, kids |-> <<>>]

\* the attributes an element of the markup carries: none, or an event
\* handler together with an attribute that has "on" inside its name
AttrSets == {{}, {<<"o", "n", "c">>, <<"h", "o", "n">>}}

\* the sequences of at most MaxKids members of S
Forests(S) == UNION {[1..k -> S] : k \in 0..MaxKids}

RECURSIVE Nodes(_)
\* the nodes whose elements nest at most d deep; a script holds only text
Nodes(d) ==
  LET below == IF d = 0 THEN {} ELSE Nodes(d - 1)
      raw == IF d = 0 THEN {} ELSE {Text}
  IN  {Text}
      \cup {[tag |-> t, attrs |-> a, kids |-> k] :
              t \in {"p", "template"}, a \in AttrSets, k \in Forests(below)}
      \cup {[tag |-> "script", attrs |-> a, kids |-> k] :
              a \in AttrSets, k \in Forests(raw)}

\* attr.name.startsWith(prefix)
startsWith(name, prefix) ==
  /\ Len(name) >= Len(prefix)
  /\ SubSeq(name, 1, Len(prefix)) = prefix

\* a node is an element
IsElement(n) == n.tag # "#text"

RECURSIVE removeScripts(_)
\* temp.querySelectorAll('script').forEach(script => script.remove()):
\* querySelectorAll matches the descendants of temp, and the contents of a
\* template are not descendants of it
removeScripts(f) ==
  LET kept == SelectSeq(f, LAMBDA n : n.tag # "script")
  IN  [i \in 1..Len(kept) |->
         IF kept[i].tag = "template"
         THEN kept[i]
         ELSE [kept[i] EXCEPT !.kids = removeScripts(@)]]

RECURSIVE removeHandlers(_)
\* temp.querySelectorAll('*').forEach: every attribute whose name starts
\* with "on" is removed from every element querySelectorAll matches
removeHandlers(f) ==
  [i \in 1..Len(f) |->
     IF ~IsElement(f[i])
     THEN f[i]
     ELSE [f[i] EXCEPT
             !.attrs = {a \in @ : ~startsWith(a, <<"o", "n">>)},
             !.kids = IF f[i].tag = "template" THEN @ ELSE removeHandlers(@)]]

sanitizeHTML(html) == removeHandlers(removeScripts(html))

Markup(f) == [t |-> "markup", forest |-> f]

InitSanitize ==
  /\ CacheIdle
  /\ ListIdle
  /\ LoaderIdle
  /\ UiIdle
  /\ arg \in {Markup(f) : f \in Forests(Nodes(MaxDepth))}
  /\ result = [t |-> "undefined"]

Sanitize ==
  /\ result.t = "undefined"
  /\ result' = Markup(sanitizeHTML(arg.forest))
  /\ UNCHANGED <<arg, cacheVars, listVars, loaderVars, uiVars>>

NextSanitize == Sanitize

SpecSanitize == InitSanitize /\ [][NextSanitize]_vars

----------------------------------------------------------------------------
(* calculateReadingTime on its own.  The content is a sequence of          *)
(* characters in which a whole tag is one character, "<>".                 *)

\* html.replace(/<[^>]*>/g, ' ')
replaceTags(html) == [i \in 1..Len(html) |-> IF html[i] = "<>" THEN " " ELSE html[i]]

\* text.replace(/\s+/g, ' '): of every run of blanks, the first one stays
collapse(text) ==
  LET at == [i \in 1..Len(text) |->
               [c |-> text[i], run |-> i > 1 /\ text[i] = " " /\ text[i - 1] = " "]]
      kept == SelectSeq(at, LAMBDA x : ~x.run)
  IN  [i \in 1..Len(kept) |-> kept[i].c]

\* text.split(' ').length: one more than the blanks of the text
splitLength(text) == Cardinality({i \in 1..Len(text) : text[i] = " "}) + 1

\* Math.ceil(a / b) for a >= 0 and b > 0
ceil(a, b) == IF a % b = 0 THEN a \div b ELSE a \div b + 1

\* calculateReadingTime with Math.floor for Math.ceil
calculateReadingTime_floor(html) ==
  LET text == trim(collapse(replaceTags(html)))
      words == IF text # <<>> THEN splitLength(text) ELSE 0
      minutes == words \div wordsPerMinute
  IN  IF minutes > 1 THEN minutes ELSE 1

calculateReadingTime(html) ==
  LET text == trim(collapse(replaceTags(html)))
      words == IF text # <<>> THEN splitLength(text) ELSE 0
      minutes == ceil(words, wordsPerMinute)
  IN  IF minutes > 1 THEN minutes ELSE 1

\* how the words of a content are laid out: one blank between words; blanks
\* before, after and doubled between; every word in an element of its own
Layouts == {"plain", "padded", "tagged"}

\* the content of w words in the layout l
Html(w, l) ==
  LET unit == CASE l = "plain" -> <<"w", " ">>
                [] l = "padded" -> <<" ", "w", " ">>
                [] l = "tagged" -> <<"<>", "w", "w", "<>">>
      all == [i \in 1..(w * Len(unit)) |-> unit[((i - 1) % Len(unit)) + 1]]
  IN  IF l = "plain" THEN SubSeq(all, 1, Len(all) - 1) ELSE all

InitReadingTime ==
  /\ CacheIdle
  /\ ListIdle
  /\ LoaderIdle
  /\ UiIdle
  /\ arg \in {[t |-> "html", words |-> w, layout |-> l, html |-> Html(w, l)] :
                w \in 0..MaxWords, l \in Layouts}
  /\ result = [t |-> "undefined"]

ReadingTime ==
  /\ result.t = "undefined"
  /\ result' = [t |-> "number", num |-> calculateReadingTime(arg.html)]
  /\ UNCHANGED <<arg, cacheVars, listVars, loaderVars, uiVars>>

NextReadingTime == ReadingTime

SpecReadingTime == InitReadingTime /\ [][NextReadingTime]_vars

----------------------------------------------------------------------------
(* The HTML generators on their own.  A text is a sequence of characters;  *)
(* the letters of "script", of the entities and of the templates' fixed    *)
(* text stand as one character each, "<", ">" and "&" stand for            *)
(* themselves.  The article has no content: the generators' defaults apply. *)

\* escapeHTML that returns its argument as it is
escapeHTML_raw(str) == str

\* escapeHTML: what innerHTML serializes for a text node holding str
escapeHTML(str) ==
  [i \in 1..Len(str) |->
     CASE str[i] = "<" -> "&lt;"
       [] str[i] = ">" -> "&gt;"
       [] str[i] = "&" -> "&amp;"
       [] OTHER -> str[i]]

\* encodeURIComponent
encodeURIComponent(str) ==
  [i \in 1..Len(str) |->
     CASE str[i] = "<" -> "%3C"
       [] str[i] = ">" -> "%3E"
       [] str[i] = "&" -> "%26"
       [] OTHER -> str[i]]

\* formatDate: toLocaleDateString of the date the text denotes; a text that
\* denotes no date gives "Invalid Date", and nothing of the text is returned
formatDate(isoDate) ==
  IF isoDate = <<"2024-01-01">> THEN <<"01 Jan 2024">> ELSE <<"Invalid Date">>

\* a || b on texts
Or(a, b) == IF a # <<>> THEN a ELSE b

generateCardHTML(article) ==
  LET coverHTML ==
        IF article.cover # <<>>
        THEN <<"<", "img src=\"">> \o escapeHTML(article.cover)
             \o <<"\" alt=\"">> \o escapeHTML(article.title)
             \o <<"\" loading=\"lazy\" /", ">">>
        ELSE <<>>
  IN  <<"<", "a class=\"card col-4\" href=\"article-detail.html?id=">>
      \o encodeURIComponent(article.id)
      \o <<"\" data-topic=\"">> \o escapeHTML(article.topic)
      \o <<"\" data-title=\"">> \o escapeHTML(article.title)
      \o <<"\" aria-label=\"Baca artikel ">> \o escapeHTML(article.title)
      \o <<"\"", ">", "<", "div class=\"card-media\"", ">">> \o coverHTML
      \o <<"<", "/div", ">", "<", "div class=\"card-body\"", ">",
           "<", "div class=\"card-topic\"", ">",
           "<", "span class=\"dot\" aria-hidden=\"true\"", ">", "<", "/span", ">">>
      \o escapeHTML(article.topic)
      \o <<"<", "/div", ">", "<", "h3 class=\"card-title\"", ">">>
      \o escapeHTML(article.title)
      \o <<"<", "/h3", ">", "<", "p class=\"card-excerpt\"", ">">>
      \o escapeHTML(Or(article.excerpt, <<>>))
      \o <<"<", "/p", ">", "<", "div class=\"card-meta\"", ">", "<", "span", ">">>
      \o escapeHTML(formatDate(article.date))
      \o <<"<", "/span", ">", "<", "span aria-hidden=\"true\"", ">", "<", "/span", ">",
           "<", "span", ">">>
      \o escapeHTML(Or(article.author, <<"Anonim">>))
      \o <<"<", "/span", ">", "<", "/div", ">", "<", "/div", ">", "<", "/a", ">">>

generateDetailHTML(article) ==
  LET coverHTML ==
        IF article.cover # <<>>
        THEN <<"<", "div class=\"article-cover\"", ">", "<", "img src=\"">>
             \o escapeHTML(article.cover)
             \o <<"\" alt=\"Cover ">> \o escapeHTML(article.title)
             \o <<"\" /", ">", "<", "/div", ">">>
        ELSE <<>>
      readingTime == calculateReadingTime(<<>>)
      sanitizedContent == <<"<", "p", ">", "Konten tidak tersedia.", "<", "/p", ">">>
      minutes == IF readingTime = 1 THEN <<"1">> ELSE <<"n">>
  IN  <<"<", "section class=\"hero\"", ">", "<", "div class=\"hero-inner\"", ">",
        "<", "div class=\"hero-kicker\"", ">", "ARTIKEL ", "<", "span", ">", "TOPIK: ">>
      \o escapeHTML(article.topic)
      \o <<"<", "/span", ">", "<", "/div", ">", "<", "h1 class=\"hero-title\"", ">">>
      \o escapeHTML(article.title)
      \o <<"<", "/h1", ">", "<", "p class=\"hero-sub\"", ">">>
      \o escapeHTML(Or(article.excerpt, <<>>))
      \o <<"<", "/p", ">", "<", "/div", ">", "<", "/section", ">",
           "<", "div class=\"article-shell\"", ">", "<", "article class=\"article\"", ">">>
      \o coverHTML
      \o <<"<", "header class=\"article-head\"", ">", "<", "div class=\"meta-bar\"", ">",
           "<", "span class=\"badge\"", ">", "<", "span class=\"dot\"", ">", "<", "/span", ">">>
      \o escapeHTML(article.topic)
      \o <<"<", "/span", ">", "<", "span", ">">>
      \o escapeHTML(formatDate(article.date))
      \o <<"<", "/span", ">", "<", "span", ">">>
      \o escapeHTML(Or(article.author, <<"Anonim">>))
      \o <<"<", "/span", ">", "<", "span", ">">> \o minutes
      \o <<" menit baca", "<", "/span", ">", "<", "/div", ">",
           "<", "h1 class=\"article-title\"", ">">>
      \o escapeHTML(article.title)
      \o <<"<", "/h1", ">", "<", "/header", ">",
           "<", "section class=\"article-content\"", ">">>
      \o sanitizedContent
      \o <<"<", "/section", ">", "<", "/article", ">",
           "<", "aside class=\"aside\"", ">", "<", "div class=\"panel\"", ">",
           "<", "strong", ">", "Topik:", "<", "/strong", ">">>
      \o escapeHTML(article.topic)
      \o <<"<", "strong", ">", "Tanggal:", "<", "/strong", ">">>
      \o escapeHTML(formatDate(article.date))
      \o <<"<", "strong", ">", "Penulis:", "<", "/strong", ">">>
      \o escapeHTML(Or(article.author, <<"Anonim">>))
      \o <<"<", "strong", ">", "Waktu Baca:", "<", "/strong", ">">> \o minutes
      \o <<" menit", "<", "/div", ">", "<", "div class=\"panel\"", ">",
           "<", "a href=\"article-list.html\"", ">", "<", "/a", ">",
           "<", "a href=\"#\" onclick=\"window.print(); return false;\"", ">", "<", "/a", ">",
           "<", "a href=\"#\" onclick=\"navigator.share?.({title: '">>
      \o escapeHTML(article.title)
      \o <<"', url: window.location.href}); return false;\"", ">", "<", "/a", ">",
           "<", "/div", ">", "<", "/aside", ">", "<", "/div", ">">>

\* the characters of a raw field
FieldChars == {"<", "script", "&"}

\* the raw texts of at most n characters
FieldTexts(n) == UNION {[1..k -> FieldChars] : k \in 0..n}

\* a raw field that is missing, or that opens a script element
FieldValues == {<<>>, <<"<", "script", ">">>}

\* the articles handed to the generators
RenderedArticles ==
  [id : {<<"a", "<">>}, title : FieldTexts(MaxFieldLen), topic : FieldValues,
   excerpt : FieldValues, author : FieldValues,
   date : {<<"2024-01-01">>, <<"<", "script", ">">>}, cover : FieldValues]

InitRender ==
  /\ CacheIdle
  /\ ListIdle
  /\ LoaderIdle
  /\ UiIdle
  /\ arg \in {[t |-> "article", article |-> a] : a \in RenderedArticles}
  /\ result = [t |-> "undefined"]

RenderCard ==
  /\ result.t = "undefined"
  /\ result' = [t |-> "card", html |-> generateCardHTML(arg.article)]
  /\ UNCHANGED <<arg, cacheVars, listVars, loaderVars, uiVars>>

RenderDetail ==
  /\ result.t = "undefined"
  /\ result' = [t |-> "detail", html |-> generateDetailHTML(arg.article)]
  /\ UNCHANGED <<arg, cacheVars, listVars, loaderVars, uiVars>>

NextRender == RenderCard \/ RenderDetail

SpecRender == InitRender /\ [][NextRender]_vars

----------------------------------------------------------------------------
(* Claims about the filter, checked under SpecFilter *)

\* the articles the container shows
Shown == IF cards.state = "cards" THEN cards.shown ELSE <<>>

\* out is the subsequence of list of the articles at the positions in keep:
\* in their order, each once, and nothing else
IsSubsequenceAt(out, list, keep) ==
  /\ Len(out) = Cardinality(keep)
  /\ \A i \in keep : out[Cardinality({j \in keep : j <= i})] = list[i]

TopicHolds(article) ==
  activeTopicFilter = "all" \/ article.topic = activeTopicFilter

\* C9 as stated: the shown sequence is the subsequence of the articles whose
\* topic matches and for which the trimmed query is empty or the lowercased
\* query, blanks and all, is a substring of the lowercased title or excerpt.
C9_Filter_AsStated ==
  (cards.state # "blank") =>
    IsSubsequenceAt(Shown, articles.arr,
      {i \in 1..Len(articles.arr) :
         /\ TopicHolds(articles.arr[i])
         /\ \/ trim(searchQuery) = <<>>
            \/ includes(toLowerCase(articles.arr[i].title),
                        toLowerCase(searchQuery))
            \/ includes(toLowerCase(articles.arr[i].excerpt),
                        toLowerCase(searchQuery))})

\* C9, amended: the shown sequence is the subsequence of the articles whose
\* topic matches and for which the trimmed query is empty or the lowercased
\* and trimmed query is a substring of the lowercased title or excerpt; under
\* topic "all" and an empty or blank query it is the collection itself.
C9_Filter ==
  (cards.state # "blank") =>
    /\ IsSubsequenceAt(Shown, articles.arr,
         {i \in 1..Len(articles.arr) :
            /\ TopicHolds(articles.arr[i])
            /\ \/ trim(searchQuery) = <<>>
               \/ includes(toLowerCase(articles.arr[i].title),
                           trim(toLowerCase(searchQuery)))
               \/ includes(toLowerCase(articles.arr[i].excerpt),
                           trim(toLowerCase(searchQuery)))})
    /\ (activeTopicFilter = "all" /\ trim(searchQuery) = <<>>) =>
         Shown = articles.arr

\* a search in capitals that matches the second article by its excerpt only,
\* under that article's topic
C9_Witness ==
  /\ articles = Arr(<<A1, A2>>)
  /\ activeTopicFilter = "Edukasi"
  /\ searchQuery = <<"A", " ">>
  /\ cards = [state |-> "cards", shown |-> <<A2>>]

----------------------------------------------------------------------------
(* Claims about the cache store, checked under SpecCache *)

\* read() signals absence with null or undefined
Absent(v) == v.t \in {"null", "undefined"}

\* the text of an envelope { data: an array, timestamp: a number }
WellFormed(st) ==
  /\ st.k = "json"
  /\ st.json.t = "object"
  /\ st.json.data.t = "array"
  /\ st.json.timestamp.t = "number"

\* a stored, non-empty text that does not deserialize, or deserializes to
\* something that is no { data, timestamp } envelope
Malformed(st) ==
  \/ st.k = "garbage"
  \/ /\ st.k = "json"
     /\ \/ st.json.t # "object"
        \/ st.json.data.t = "undefined"
        \/ st.json.timestamp.t # "number"

\* C1: a read of a well-formed entry { data, timestamp } at instant t returns
\* the entry's data if and only if t - timestamp < cacheDuration, and returns
\* null when t - timestamp >= cacheDuration, the exact boundary included.
C1_ValidIffFresh ==
  (cacheOp.op = "read" /\ WellFormed(cacheOp.pre)) =>
    LET e == cacheOp.pre.json
        age == cacheOp.at - e.timestamp.num
    IN  /\ (cacheOp.ret = e.data) <=> (age < cacheDuration)
        /\ (age >= cacheDuration) => (cacheOp.ret = Null)

\* a read that returned an entry's data, followed by a read of the same
\* entry at the exact end of its lifetime that returned null
C1_Witness ==
  /\ prevOp.op = "read" /\ WellFormed(prevOp.pre)
  /\ prevOp.ret = prevOp.pre.json.data
  /\ cacheOp.op = "read" /\ cacheOp.pre = prevOp.pre
  /\ cacheOp.at - cacheOp.pre.json.timestamp.num = cacheDuration
  /\ cacheOp.ret = Null

\* C5 as stated: a write(C) followed by a read within the expiry window
\* returns C, and a read after the window returns absent and leaves the
\* storage empty, whether or not the storage accepted the write.
C5_RoundTrip_AsStated ==
  (prevOp.op = "write" /\ cacheOp.op = "read") =>
    IF cacheOp.at - prevOp.at < cacheDuration
    THEN cacheOp.ret = prevOp.data
    ELSE Absent(cacheOp.ret) /\ storage = NoItem

\* C5, amended: a write(C) that the storage accepted, followed by a read
\* within the expiry window, returns C; a read once the window has elapsed
\* returns absent and leaves the storage empty; and a read that follows a
\* read of an expired entry finds no item and returns absent.
C5_RoundTrip ==
  /\ (prevOp.op = "write" /\ prevOp.stored /\ cacheOp.op = "read") =>
       IF cacheOp.at - prevOp.at < cacheDuration
       THEN cacheOp.ret = prevOp.data
       ELSE Absent(cacheOp.ret) /\ storage = NoItem
  /\ ( /\ prevOp.op = "read" /\ WellFormed(prevOp.pre)
       /\ prevOp.at - prevOp.pre.json.timestamp.num >= cacheDuration
       /\ cacheOp.op = "read" ) =>
       (cacheOp.pre = NoItem /\ Absent(cacheOp.ret) /\ storage = NoItem)

\* an accepted write of a non-empty collection, read back one millisecond
\* before the end of its lifetime
C5_Witness ==
  /\ prevOp.op = "write" /\ prevOp.stored /\ prevOp.data = Arr(<<A1, A2>>)
  /\ cacheOp.op = "read" /\ cacheOp.at - prevOp.at = cacheDuration - 1
  /\ cacheOp.ret = prevOp.data

\* C6: a read of a malformed entry returns absent and purges the entry.
C6_MalformedPurged ==
  (cacheOp.op = "read" /\ Malformed(cacheOp.pre)) =>
    (Absent(cacheOp.ret) /\ storage = NoItem)

\* C7: whatever the key holds, and when the storage throws, a read returns
\* an array or absent.
C7_ReadArrayOrAbsent ==
  (cacheOp.op = "read") => (cacheOp.ret.t = "array" \/ Absent(cacheOp.ret))

----------------------------------------------------------------------------
(* Claims about the loader, checked under Spec *)

\* the calls of loadArticles made in this page
Calls == {call[p] : p \in {q \in Callers : call[q].pc # "idle"}}

\* the content is an entry that a read at instant t finds valid
ValidAt(st, t) ==
  WellFormed(st) /\ t - st.json.timestamp.num < cacheDuration

\* the call fetched, and the fetch answered with an array
FetchedArray(c) ==
  /\ c.fetches >= 1
  /\ c.response.net = "response"
  /\ ok(c.response)
  /\ ~JSONparseThrows(c.response.body)
  /\ JSONparse(c.response.body).t = "array"

\* C2: in every call of loadArticles the cache read comes first and every
\* network retrieval after it; a call whose read finds a valid entry returns
\* the entry's data and makes no retrieval; every call makes at most one.
C2_CacheBeforeNetwork ==
  \A c \in Calls :
    /\ c.log[1] = "read"
    /\ \A i \in 1..Len(c.log) : c.log[i] = "read" => i = 1
    /\ c.fetches = Cardinality({i \in 1..Len(c.log) : c.log[i] = "fetch"})
    /\ c.fetches <= 1
    /\ ValidAt(c.pre, c.readAt) =>
         /\ c.pc = "returned"
         /\ c.ret = c.pre.json.data
         /\ c.fetches = 0

\* the page with both containers, reloaded: both calls read the entry that
\* a retrieval of the first page stored, and return its data without a
\* retrieval
C2_Witness ==
  /\ runs = 2
  /\ \A p \in Callers :
       /\ call[p].pc = "returned"
       /\ call[p].log = <<"read">>
       /\ call[p].fetches = 0
       /\ call[p].pre.json.timestamp.num > StartTime
       /\ call[p].ret = Arr(<<A2>>)
  /\ lastLoad.fetches = 0

\* C3 as stated: a call that starts with no cache entry and whose retrieval
\* answers with an array makes exactly one retrieval and leaves the entry
\* { data: the array, timestamp: the instant }; a call that starts right
\* after it, within the expiry window, makes no retrieval and returns the
\* same array.
C3_FreshLoadThenCached_AsStated ==
  \A c \in Calls :
    /\ (Settled(c) /\ c.pre = NoItem /\ FetchedArray(c)) =>
         /\ c.pc = "returned"
         /\ c.fetches = 1
         /\ c.ret = JSONparse(c.response.body)
         /\ c.post = JSONstringify(Obj(c.ret, Num(c.at)))
    /\ ( /\ Settled(c) /\ c.prior.pc = "returned" /\ c.prior.fetches = 1
         /\ c.pre = c.prior.post
         /\ c.readAt - c.prior.at < cacheDuration ) =>
         /\ c.pc = "returned"
         /\ c.fetches = 0
         /\ c.ret = c.prior.ret

\* C3, amended: the same, for a call whose cache write the storage accepted.
\* When setItem throws, the call returns the array and leaves no entry.
C3_FreshLoadThenCached ==
  \A c \in Calls :
    /\ (Settled(c) /\ c.pre = NoItem /\ FetchedArray(c)) =>
         /\ c.pc = "returned"
         /\ c.fetches = 1
         /\ c.ret = JSONparse(c.response.body)
         /\ c.stored => c.post = JSONstringify(Obj(c.ret, Num(c.at)))
    /\ ( /\ Settled(c) /\ c.prior.pc = "returned" /\ c.prior.fetches = 1
         /\ c.prior.stored
         /\ c.pre = c.prior.post
         /\ c.readAt - c.prior.at < cacheDuration ) =>
         /\ c.pc = "returned"
         /\ c.fetches = 0
         /\ c.ret = c.prior.ret

\* a call that found no entry, fetched two articles and stored them, and in
\* the reloaded page, a millisecond before the entry expires, a call that
\* returned them without a retrieval
C3_Witness ==
  \E c \in Calls :
    /\ runs = 2
    /\ c.prior.pc = "returned" /\ c.prior.pre = NoItem
    /\ c.prior.fetches = 1 /\ c.prior.stored
    /\ c.prior.ret = Arr(<<A1, A2>>)
    /\ c.pre = c.prior.post
    /\ c.readAt - c.prior.at = cacheDuration - 1
    /\ c.pc = "returned" /\ c.fetches = 0 /\ c.ret = Arr(<<A1, A2>>)

\* the message of the error the answer r makes loadArticles throw inside
\* its try, or NoValue when r is an array
CauseOf(r) ==
  IF r = NetworkError THEN FetchFailed
  ELSE IF ~(200 <= r.status /\ r.status <= 299) THEN HttpError(r.status)
  ELSE IF r.body.k # "json" THEN SyntaxError
  ELSE IF r.body.json.t # "array" THEN InvalidFormat
  ELSE NoValue

\* C4: a call that missed the cache and whose retrieval failed (network
\* error, non-success status, body that is no JSON, JSON that is no array)
\* throws one kind of error, whose message is "Gagal memuat data: " and the
\* cause (with the status for a non-success status), and returns nothing;
\* a call returns a collection only for an array.
C4_LoadFailure ==
  \A c \in Calls :
    (Settled(c) /\ c.fetches = 1) =>
      IF CauseOf(c.response) # NoValue
      THEN /\ c.pc = "failed"
           /\ c.ret = [t |-> "error",
                       message |-> [prefix |-> "Gagal memuat data: ",
                                    cause |-> CauseOf(c.response)]]
      ELSE c.ret.t = "array"

\* the page with both containers, the list's call failed on the status 404
\* and the detail's call on a JSON body that is no array
C4_Witness ==
  /\ call["list"].pc = "failed"
  /\ call["list"].ret = LoadFailure(HttpError(404))
  /\ call["detail"].pc = "failed"
  /\ call["detail"].response.net = "response"
  /\ call["detail"].response.status = 200
  /\ call["detail"].ret = LoadFailure(InvalidFormat)

\* C8: when setItem throws, setCachedData does not raise: the call returns
\* the array it fetched and leaves the storage as it was; a call that starts
\* on that storage, not finding a valid entry, fetches again.
C8_WriteFailsSoft ==
  \A c \in Calls :
    /\ (Settled(c) /\ FetchedArray(c)) =>
         /\ c.pc = "returned"
         /\ c.ret = JSONparse(c.response.body)
         /\ ~c.stored => c.post = c.before
    /\ ( /\ c.prior.pc = "returned" /\ c.prior.fetches = 1 /\ ~c.prior.stored
         /\ c.pre = c.prior.post
         /\ ~WellFormed(c.pre) ) =>
         (c.fetches = 1 /\ Absent(c.cached))

\* a storage that is available and rejects the write: a call that returned
\* the two articles it fetched and stored nothing, and in the reloaded page
\* a call that fetched again and returned
C8_Witness ==
  \E c \in Calls :
    /\ storageAvailable /\ runs = 2
    /\ c.prior.pc = "returned" /\ c.prior.fetches = 1 /\ ~c.prior.stored
    /\ c.prior.ret = Arr(<<A1, A2>>) /\ c.prior.post = NoItem
    /\ c.pre = NoItem
    /\ c.pc = "returned" /\ c.fetches = 1 /\ c.ret = Arr(<<A2>>)

----------------------------------------------------------------------------
(* Claims about the debounced search, checked under SpecList *)

\* the timeouts and the last debounced run, in any state
DebounceState ==
  /\ Cardinality(timers) <= 1
  /\ \A x \in timers : /\ timeout = [id |-> x.id]
                       /\ x.due = lastInputAt + searchDebounce
  /\ lastEvent.ev = "timer" =>
       /\ lastEvent.since >= searchDebounce
       /\ lastEvent.latest
       /\ lastEvent.others = 0

\* what a step that handles an input event does
InputStep ==
  inputs' # inputs =>
    /\ cards' = cards
    /\ searchQuery' = searchQuery
    /\ timers' = {[id |-> inputs', due |-> now + searchDebounce]}
    /\ timers \cap timers' = {}

\* what a step that runs a timeout does
FireStep ==
  (timers' # timers /\ timers' \subseteq timers) =>
    /\ now >= lastInputAt + searchDebounce
    /\ timers = {[id |-> timeout.id, due |-> lastInputAt + searchDebounce]}
    /\ timers' = {}
    /\ searchQuery' = inputValue
    /\ cards' = applyFilters(articles.arr, activeTopicFilter, inputValue)

\* C10: an input event does not recompute the view: it cancels the pending
\* debounce timeout and schedules a new one, so at most one timeout is
\* pending at any time; a debounced recomputation runs only when
\* searchDebounce (300) milliseconds or more have passed since the last
\* input event, and the timeout that runs is the one scheduled last.
C10_Debounce ==
  /\ []DebounceState
  /\ [][InputStep /\ FireStep]_vars

\* C10's case: two input events less than searchDebounce apart, the second
\* having cancelled the first's timeout, and the second's timeout run
\* exactly searchDebounce after it with the input's value.
C10_Witness ==
  /\ inputs = 2
  /\ lastInputAt = StartTime + searchDebounce - 1
  /\ lastEvent.ev = "timer"
  /\ lastEvent.id = 2
  /\ lastEvent.at = lastInputAt + searchDebounce
  /\ timers = {}
  /\ searchQuery = <<"b">>
  /\ inputValue = <<"b">>
  /\ cards = [state |-> "cards", shown |-> <<A2>>]

----------------------------------------------------------------------------
(* Claims about the explicit triggers and the chips, checked under SpecList *)

\* the container shows the filter of the loaded collection under the
\* committed topic and query
Rendered == cards = applyFilters(articles.arr, activeTopicFilter, searchQuery)

\* the last event handled was a click on the search button or Enter
ExplicitTrigger ==
  \/ lastEvent.ev = "click"
  \/ lastEvent.ev = "keydown" /\ lastEvent.key = "Enter"

\* C11: once a click on the search button or an Enter keydown has been
\* handled, the query is the input's raw value and the container shows the
\* subset filtered by it, whether a debounce timeout is pending or not.
C11_ExplicitTrigger ==
  ExplicitTrigger => (searchQuery = inputValue /\ Rendered)

\* C11's case: Enter pressed at the instant of an input event, its timeout
\* still pending and not due, with a raw value that has a trailing space
C11_Witness ==
  /\ lastEvent.ev = "keydown" /\ lastEvent.key = "Enter"
  /\ timers # {} /\ \A x \in timers : now < x.due
  /\ now = lastInputAt
  /\ articles = Arr(<<A1, A2>>)
  /\ inputValue = <<"a", " ">>
  /\ searchQuery = <<"a", " ">>
  /\ cards = [state |-> "cards", shown |-> <<A1, A2>>]

\* C12: once a chip has been clicked, that chip alone is marked active,
\* activeTopicFilter is its topic, and the container shows the subset
\* filtered by that topic, with no wait.
C12_ChipExclusive ==
  lastEvent.ev = "chip" =>
    /\ activeChips = {lastEvent.topic}
    /\ activeTopicFilter = lastEvent.topic
    /\ Rendered

\* C12's case: a chip clicked while a debounce timeout
\* is pending, narrowing the two loaded articles to one
C12_Witness ==
  /\ lastEvent.ev = "chip" /\ lastEvent.topic = "Edukasi"
  /\ activeChips = {"Edukasi"}
  /\ timers # {} /\ \A x \in timers : now < x.due
  /\ articles = Arr(<<A1, A2>>)
  /\ searchQuery = <<>>
  /\ cards = [state |-> "cards", shown |-> <<A2>>]

----------------------------------------------------------------------------
(* Claims about the controllers, checked under Spec *)

\* the container of the controller p
View(p) == IF p = "list" THEN cards ELSE detailMount

\* the detail controller's call returned a collection in which no article
\* has the requested id
NoMatch ==
  /\ call["detail"].pc = "returned"
  /\ call["detail"].ret.t = "array"
  /\ find(call["detail"].ret.arr, page.id) = Undefined

\* C13 as stated: for every loaded collection, an id that matches no
\* article shows the collection's first article and not the error state.
C13_Fallback_AsStated ==
  NoMatch =>
    /\ detailMount.state = "detail"
    /\ detailMount.article = call["detail"].ret.arr[1]

\* C13: for every loaded collection that is not empty, an id that matches no
\* article (a missing id included) shows the collection's first article and
\* not the error state; an id that matches shows the first article with
\* that id; an empty collection shows the error state.
C13_Fallback ==
  (call["detail"].pc = "returned" /\ call["detail"].ret.t = "array") =>
    LET arr == call["detail"].ret.arr
    IN  IF arr = <<>>
        THEN detailMount = showError([text |-> "Tidak ada artikel tersedia"])
        ELSE IF NoMatch
        THEN detailMount = [state |-> "detail", article |-> arr[1]]
        ELSE /\ detailMount.state = "detail"
             /\ detailMount.article.id = page.id

\* C13's case: the id zz, which no article has, on a fetched collection of
\* two articles: the first one is shown
C13_Witness ==
  /\ page.id = "zz"
  /\ NoMatch
  /\ call["detail"].fetches = 1
  /\ call["detail"].ret = Arr(<<A1, A2>>)
  /\ detailMount = [state |-> "detail", article |-> A1]

\* C14: a controller whose load failed shows the error state with the
\* load's message, and once its load has settled its container is neither
\* loading nor blank.
C14_FailureShown ==
  \A p \in Callers :
    /\ call[p].pc = "failed" => View(p) = showError(call[p].ret.message)
    /\ Settled(call[p]) => View(p).state \notin {"loading", "blank"}

\* C14's case: on the page with both containers, the list's fetch answered
\* 404 and the detail's fetch failed: both show the error state
C14_Witness ==
  /\ page.cards /\ page.detail
  /\ call["list"].pc = "failed"
  /\ call["list"].ret = LoadFailure(HttpError(404))
  /\ cards = showError(LoadFailure(HttpError(404)).message)
  /\ call["detail"].pc = "failed"
  /\ call["detail"].ret = LoadFailure(FetchFailed)
  /\ detailMount = showError(LoadFailure(FetchFailed).message)

----------------------------------------------------------------------------
(* Claims about the list's rendering, checked under SpecList *)

\* C15: after the initial render and after every recomputation, the
\* container shows the empty state if and only if the filtered subset is
\* empty, shows cards for exactly the filtered subset otherwise, and is
\* never in the error state.
C15_EmptyState ==
  LET f == filtered(articles.arr, activeTopicFilter, searchQuery)
  IN  /\ cards.state = "empty" <=> f = <<>>
      /\ f # <<>> => cards = [state |-> "cards", shown |-> f]
      /\ cards.state # "error"

\* C15's case: two articles loaded and shown, then the chip of a topic that
\* neither has: the recomputation shows the empty state
C15_Witness ==
  /\ articles = Arr(<<A1, A2>>)
  /\ lastEvent.ev = "chip" /\ lastEvent.topic = "Konten"
  /\ filtered(articles.arr, activeTopicFilter, searchQuery) = <<>>
  /\ cards = [state |-> "empty"]

----------------------------------------------------------------------------
(* Claims about sanitizeHTML, checked under SpecSanitize *)

RECURSIVE Strip(_)
\* the forest without its script nodes and without the attributes whose
\* name starts with "on", at every depth, everything else as it is
Strip(f) ==
  LET kept == SelectSeq(f, LAMBDA n : n.tag # "script")
  IN  [i \in 1..Len(kept) |->
         [tag |-> kept[i].tag,
          attrs |-> {a \in kept[i].attrs : ~startsWith(a, <<"o", "n">>)},
          kids |-> Strip(kept[i].kids)]]

\* C16: for every markup tree, sanitizeHTML returns the tree without any
\* script node (tag and children) and without any attribute whose name
\* starts with "on", every other node and attribute unchanged, and
\* sanitizing the result again returns the result.
C16_Sanitize ==
  result.t = "markup" =>
    /\ result.forest = Strip(arg.forest)
    /\ sanitizeHTML(result.forest) = result.forest

\* the half of C16 that holds: sanitizing the result again returns it
C16_Idempotent ==
  result.t = "markup" => sanitizeHTML(result.forest) = result.forest

----------------------------------------------------------------------------
(* Claims about calculateReadingTime, checked under SpecReadingTime *)

\* the least number of minutes, at least one, in which w words are read at
\* wordsPerMinute words a minute
Minutes(w) ==
  CHOOSE m \in 1..(w + 1) :
    /\ m * wordsPerMinute >= w
    /\ m = 1 \/ (m - 1) * wordsPerMinute < w

----------------------------------------------------------------------------
(* Claims about the HTML generators, checked under SpecRender *)

\* the text "<script"
ScriptOpen == <<"<", "script">>

\* a raw field of the article holds "<script"
RawScript(a) ==
  \E f \in {"title", "topic", "excerpt", "author", "date", "cover"} :
    includes(a[f], ScriptOpen)

\* C18: whatever the raw values of title, topic, excerpt, author, date and
\* cover, a script element included, the card and the detail the generators
\* emit do not hold the text "<script".
C18_NoScript ==
  result.t \in {"card", "detail"} => ~includes(result.html, ScriptOpen)

\* C18's case: a detail generated from an article whose raw fields all hold
\* a script element; the title comes out with its "<" escaped
C18_Witness ==
  /\ result.t = "detail"
  /\ \A f \in {"topic", "excerpt", "author", "date", "cover"} :
       arg.article[f] = <<"<", "script", ">">>
  /\ arg.article.title = ScriptOpen
  /\ RawScript(arg.article)
  /\ includes(result.html, <<"&lt;", "script">>)

----------------------------------------------------------------------------
(* Claims about overlapping loads and the cache write, checked under Spec *)

\* the entry a call writes: its payload and the instant of the write
Entry(c) == JSONstringify(Obj(c.ret, Num(c.at)))

\* the call is in flight: its fetch or its response.json() has not settled
InFlight(c) == c.pc \in {"fetching", "parsing"}

\* both controllers' calls missed the cache, fetched and returned
BothFetched ==
  \A p \in Callers :
    call[p].pc = "returned" /\ call[p].fetches = 1

\* C19 as stated: when both overlapping calls have returned, the cache
\* holds the payload of the call that resolved last.
C19_LastWriterWins_AsStated ==
  BothFetched =>
    /\ lastLoad \in {Summary(call[p]) : p \in Callers}
    /\ storage = Entry(lastLoad)

\* what holds of the overlapping calls in every state
Uncoordinated ==
  /\ \A c \in Calls : InFlight(c) => (c.fetches = 1 /\ ~Truthy(c.cached))
  /\ \A c \in Calls :
       (c.pc = "returned" /\ c.fetches = 1) =>
         c.post = (IF c.stored THEN Entry(c) ELSE c.before)
  /\ BothFetched =>
       /\ lastLoad \in {Summary(call[p]) : p \in Callers}
       /\ storage = lastLoad.post
       /\ lastLoad.stored => storage = Entry(lastLoad)

\* a call in flight stays in flight or settles, as long as the page stays
NeverCancelled ==
  \A p \in Callers :
    (InFlight(call[p]) /\ runs' = runs) =>
      /\ InFlight(call'[p]) \/ Settled(call'[p])
      /\ call'[p].fetches = 1

\* C19: two calls that overlap and both miss the cache each issue their own
\* fetch; a fetch is not cancelled while the page stays, and the call writes
\* its payload when it returns, whatever the other call did meanwhile; once
\* both have returned, the cache is as the call that resolved last left it:
\* it holds that call's payload when the storage accepted its write.
C19_LastWriterWins ==
  /\ []Uncoordinated
  /\ [][NeverCancelled]_vars

\* C19's case: the list's call started first and resolved last, and its
\* payload replaced the entry the detail's call had written
C19_Witness ==
  /\ BothFetched
  /\ call["detail"].ret = Arr(<<A2>>) /\ call["detail"].stored
  /\ call["list"].ret = Arr(<<A1, A2>>) /\ call["list"].stored
  /\ call["list"].before = Entry(call["detail"])
  /\ lastLoad = Summary(call["list"])
  /\ storage = Entry(call["list"])

\* the call's response was OK and its body decoded to an array
ValidatedArray(c) ==
  /\ c.response # NoResponse /\ c.response # NetworkError
  /\ ok(c.response)
  /\ ~JSONparseThrows(c.response.body)
  /\ JSONparse(c.response.body).t = "array"

\* the call called setCachedData
Wrote(c) == \E i \in 1..Len(c.log) : c.log[i] = "write"

\* C20 as stated: a call writes only after an OK response whose body
\* decoded to an array, the write replaces the entry with the payload and
\* the instant, and a failed call writes nothing.
C20_WriteAfterValidation_AsStated ==
  \A c \in Calls :
    /\ Wrote(c) =>
         /\ ValidatedArray(c)
         /\ c.ret = JSONparse(c.response.body)
         /\ c.post = Entry(c)
    /\ c.pc = "failed" => (~Wrote(c) /\ c.post = c.before)

\* C20: a call calls setCachedData only after an OK response whose body
\* decoded to an array, and it is the call's last step; when the storage
\* accepts the write the whole entry becomes that payload with the instant
\* of the write, and otherwise the content stays; a call that fails (network
\* error, non-success status, body that is no array) writes nothing.
C20_WriteAfterValidation ==
  \A c \in Calls :
    /\ Wrote(c) =>
         /\ ValidatedArray(c)
         /\ c.pc = "returned"
         /\ c.log = <<"read", "fetch", "write">>
         /\ c.ret = JSONparse(c.response.body)
         /\ c.post = (IF c.stored THEN Entry(c) ELSE c.before)
    /\ (c.pc = "returned" /\ c.fetches = 1) => Wrote(c)
    /\ c.pc = "failed" => (~Wrote(c) /\ c.post = c.before)

\* C20's case: a call that found an unparseable text under the key, fetched
\* an array and wrote it: the text is gone, the entry is the payload
C20_Witness ==
  /\ call["list"].pc = "returned"
  /\ Wrote(call["list"])
  /\ call["list"].stored
  /\ call["list"].before = Garbage
  /\ call["list"].ret = Arr(<<A1, A2>>)
  /\ storage = Entry(call["list"])

----------------------------------------------------------------------------
(* Claims about the clearcache marker, checked under Spec *)

\* in a page opened with the marker, once init has run: the redirect is
\* asked for, and every call of loadArticles read an empty cache, was not
\* served from it and fetched
PurgedBeforeRead ==
  (page.clearcache /\ started) =>
    /\ redirect
    /\ \A c \in Calls :
         /\ c.pre = NoItem
         /\ ~Truthy(c.cached)
         /\ c.fetches = 1
         /\ c.log # <<"read">>

\* init in a page opened with the marker leaves nothing under the key,
\* whatever was there
PurgeStep ==
  (page.clearcache /\ ~started /\ started') => storage' = NoItem

\* the page that follows a page opened with the marker is the same path
\* without its query string
RedirectStep ==
  (page.clearcache /\ runs' # runs) =>
    page' = Page(page.cards, page.detail, FALSE, "none")

\* C21: when the query string holds the clearcache marker, init removes the
\* cache entry whatever it is and asks for a redirect to the same path
\* without the query string; the removal comes before the cache reads of
\* the controllers that init starts, so no call of loadArticles in that
\* page is served from the removed entry.
C21_ClearCache ==
  /\ []PurgedBeforeRead
  /\ [][PurgeStep /\ RedirectStep]_vars

\* C21's case: the page with both containers opened with the marker; both
\* controllers' calls read nothing, fetched, and the list's has returned
C21_Witness ==
  /\ page = Page(TRUE, TRUE, TRUE, "none")
  /\ started /\ redirect
  /\ storageAvailable
  /\ \A p \in Callers : call[p].pc # "idle" /\ call[p].pre = NoItem
  /\ call["list"].pc = "returned"
  /\ call["list"].log = <<"read", "fetch", "write">>
  /\ call["detail"].pc = "fetching"

----------------------------------------------------------------------------
(* Claims about the list view at rest, checked under SpecList *)

\* an input event, a click on the search button or Enter has been handled
Touched == inputs > 0 \/ lastTrigger # NoEvent

\* no debounce timeout is pending
Quiescent == timers = {}

\* C22: on a loaded list, after any interleaving of input events, clicks on
\* the search button, Enter, chip clicks and timeouts, whenever no timeout
\* is pending and an input event or an explicit trigger has been handled,
\* searchQuery is the input's value and the container shows the filter of
\* the loaded collection under activeTopicFilter and that value; this holds
\* too once a timeout that was pending across a trigger or a chip click
\* has run.
C22_QuiescentConsistency ==
  (Quiescent /\ Touched) =>
    /\ searchQuery = inputValue
    /\ cards = applyFilters(articles.arr, activeTopicFilter, inputValue)

\* C22's case: the second input event, then Enter or a click on the search
\* button while its timeout was pending, then that timeout run, a chip
\* having been clicked on the way: nothing is pending, and the view is the
\* filter under the chip's topic and the input's value
C22_Witness ==
  /\ Quiescent
  /\ inputs = 2
  /\ lastTrigger = [ev |-> "trigger", inputs |-> 2]
  /\ lastEvent.ev = "timer" /\ lastEvent.id = 2
  /\ activeTopicFilter = "Edukasi" /\ activeChips = {"Edukasi"}
  /\ articles = Arr(<<A1, A2>>)
  /\ inputValue = <<"b">>
  /\ searchQuery = <<"b">>
  /\ cards = [state |-> "cards", shown |-> <<A2>>]

====
